---- MODULE Spec2Model ----
(***************************************************************************)
(* Model of the splitpdf repository:                                       *)
(*   - the four split functions (splitPDF, splitPDFWithProgress,           *)
(*     splitAndUploadPDF, splitBufferAndUpload), one run per behaviour,    *)
(*     one step per await of the async function;                           *)
(*   - processFiles of app.js (extraction fan-out, merge, cleanup, parse,  *)
(*     write), alone and next to a second run writing its output;          *)
(*   - the upload-all script (one toFile / upload chain per page file      *)
(*     under Promise.all);                                                 *)
(*   - the response cleanup and JSON.parse of app.js as pure operators on  *)
(*     character sequences.                                                *)
(***************************************************************************)
EXTENDS Integers, Sequences, FiniteSets, TLC

VARIABLES
    \* ---- one run of a split function ----
    fn,             \* which of the four functions runs
    onProgress,     \* TRUE iff a progress callback was supplied
    baseFilename,   \* path.basename(inputPath, '.pdf')
    totalPages,     \* pdfDoc.getPageCount()
    pagesPerFile,   \* the threshold argument
    pc,             \* position of the async function
    i,              \* loop variable of the split loop
    cur,            \* the unit materialised in the current iteration
    files,          \* createdFiles / uploadedFiles
    result,         \* the value the function resolved with
    storeLog,       \* the store (files.upload) calls issued, with their state
    progressLog,    \* the arguments of the onProgress invocations, in order
    dirCreated,     \* fsPromises.mkdir(outputDir) was called
    disk,           \* the files written by fsPromises.writeFile
    \* ---- one run of processFiles ----
    ppc,            \* position of processFiles
    calls,          \* state of each analyze call (messages.create per record)
    mergeLog,       \* the user messages of the merge calls issued
    parsed,         \* the value JSON.parse returned, if it returned
    outFiles,       \* the files written by fs.writeFileSync
    console,        \* what processFiles logged
    now,            \* Date.now()
    mergeMsg,       \* the message the merge call resolved with
    otherRun,       \* position of a second processFiles run sharing disk and clock
    \* ---- one run of the upload-all script ----
    spc,            \* position of the script
    chains,         \* state of each page file's toFile / upload chain
    uploadLog,      \* the list the script logs when all uploads succeeded
    \* ---- the cleanup of one response text ----
    cx,             \* the response text x
    csep,           \* the separator between fence and text
    cplain,         \* clean-and-parse of x
    cwrapped        \* clean-and-parse of x wrapped in a code fence

splitVars == <<fn, onProgress, baseFilename, totalPages, pagesPerFile, pc, i, cur,
               files, result, storeLog, progressLog, dirCreated, disk>>
pfVars == <<ppc, calls, mergeLog, parsed, outFiles, console, now, mergeMsg, otherRun>>
cleanVars == <<cx, csep, cplain, cwrapped>>
upVars == <<spc, chains, uploadLog>>
vars == <<splitVars, pfVars, cleanVars, upVars>>

(***************************************************************************)
(* Bounds of the model.                                                    *)
(***************************************************************************)
MaxPages == 7
MaxPerFile == 3

\* the default of the pagesPerFile parameter
DefaultPagesPerFile == 50

\* page counts used with the default threshold: one that splits, one that
\* does not
DefaultRuns == {<<120, DefaultPagesPerFile>>, <<30, DefaultPagesPerFile>>}

PageInputs == ((0..MaxPages) \X (1..MaxPerFile)) \cup DefaultRuns

BaseNames == {"doc", "scan"}

DiskFns == {"splitPDF", "splitPDFWithProgress"}
UploadFns == {"splitAndUploadPDF", "splitBufferAndUpload"}
SplitFns == DiskFns \cup UploadFns

NoValue == [status |-> "none"]

(***************************************************************************)
(* Helpers of the split functions.                                         *)
(***************************************************************************)
Min(a, b) == IF a <= b THEN a ELSE b

\* Ceil with the quotient rounded down and one added
CeilPlusOne(t, p) == (t \div p) + 1

\* Math.ceil(totalPages / pagesPerFile)
Ceil(t, p) == (t + p - 1) \div p

\* Math.round((c / t) * 100): Math.round rounds half up
Percentage(c, t) == (200 * c + t) \div (2 * t)

Digit(d) == CASE d = 0 -> "0" [] d = 1 -> "1" [] d = 2 -> "2" [] d = 3 -> "3"
              [] d = 4 -> "4" [] d = 5 -> "5" [] d = 6 -> "6" [] d = 7 -> "7"
              [] d = 8 -> "8" [] d = 9 -> "9"

\* the decimal text a template literal gives a non-negative integer
RECURSIVE NumToStr(_)
NumToStr(n) == IF n < 10 THEN Digit(n) ELSE NumToStr(n \div 10) \o Digit(n % 10)

\* OutputFilename with the 0-based start page in the name
OutputFilenameZeroBased(base, idx, startPage, endPage) ==
    base \o "_part_" \o NumToStr(idx + 1) \o "_pages_" \o NumToStr(startPage)
         \o "-" \o NumToStr(endPage) \o ".pdf"

\* `${baseFilename}_part_${i + 1}_pages_${startPage + 1}-${endPage}.pdf`
OutputFilename(base, idx, startPage, endPage) ==
    base \o "_part_" \o NumToStr(idx + 1) \o "_pages_" \o NumToStr(startPage + 1)
         \o "-" \o NumToStr(endPage) \o ".pdf"

\* startPage of iteration idx
StartPage(idx, p) == idx * p

\* EndPage without the clamp to totalPages
EndPageUnclamped(startPage, p, t) == startPage + p

\* endPage of the iteration starting at startPage
EndPage(startPage, p, t) == Min(startPage + p, t)

\* pagesToCopy: the page indices startPage .. endPage-1 in order
PagesToCopy(startPage, endPage) ==
    [k \in 1..(endPage - startPage) |-> startPage + k - 1]

\* OriginalBytes re-saved through a copy of the document
OriginalBytesResaved(t) == [kind |-> "copy", pages |-> [k \in 1..t |-> k - 1]]

\* the bytes read from the input: the source document, all its pages
OriginalBytes(t) == [kind |-> "original", pages |-> [k \in 1..t |-> k - 1]]

\* newPdf.save() after copyPages/addPage of pagesToCopy
SavedBytes(pages) == [kind |-> "copy", pages |-> pages]

\* the name given to the store call of the unsplit document
WholeFilename(f, base) == base \o ".pdf"

\* the identifier the store returns for its n-th call
FileId(n) == "file_" \o NumToStr(n)

\* Failure that also hands back the records collected so far
FailureWithPartial(what) ==
    [success |-> FALSE, error |-> what, details |-> what, uploadedFiles |-> files]

\* the object the catch block returns
Failure(what) == [success |-> FALSE, error |-> what, details |-> what]

\* the argument of onProgress after unit idx (0-based) of total
ProgressArg(idx, total, name, withId, id) ==
    IF withId
    THEN [current |-> idx + 1, total |-> total, percentage |-> Percentage(idx + 1, total),
          currentFile |-> name, fileId |-> id]
    ELSE [current |-> idx + 1, total |-> total, percentage |-> Percentage(idx + 1, total),
          currentFile |-> name]

\* path.join(outputDir, outputFilename) with outputDir './output'
OutputPath(name) == "output/" \o name

\* LoopReady that does not wait for the store call in flight
LoopReadyNoAwait(p) == p \in {"loop", "store"}

\* the loop body starts only when no awaited call of the previous iteration
\* is pending
LoopReady(p) == p = "loop"

\* whether the function of this run calls onProgress in its loop
CallsProgress(f, supplied) == supplied /\ f # "splitPDF"

(***************************************************************************)
(* The split run.                                                          *)
(***************************************************************************)
SplitInit ==
    /\ fn \in SplitFns
    /\ onProgress \in BOOLEAN
    /\ (fn = "splitPDF" => onProgress = FALSE)
    /\ baseFilename \in BaseNames
    /\ \E tp \in PageInputs : totalPages = tp[1] /\ pagesPerFile = tp[2]
    /\ pc = "read"
    /\ i = 0
    /\ cur = NoValue
    /\ files = <<>>
    /\ result = NoValue
    /\ storeLog = <<>>
    /\ progressLog = <<>>
    /\ dirCreated = FALSE
    /\ disk = {}

PfIdle ==
    /\ ppc = "idle"
    /\ calls = <<>>
    /\ mergeLog = <<>>
    /\ parsed = NoValue
    /\ outFiles = <<>>
    /\ console = <<>>
    /\ now = 0
    /\ mergeMsg = NoValue
    /\ otherRun = "none"

\* the upload-all script is not running
UploadIdle ==
    /\ spc = "idle"
    /\ chains = <<>>
    /\ uploadLog = <<>>

CleanIdle ==
    /\ cx = <<>>
    /\ csep = <<>>
    /\ cplain = NoValue
    /\ cwrapped = NoValue

\* readFile / PDFDocument.load reject: the catch block returns the failure
LoadFail ==
    /\ pc = "read"
    /\ pc' = "done"
    /\ result' = Failure("load")
    /\ UNCHANGED <<fn, onProgress, baseFilename, totalPages, pagesPerFile, i, cur, files,
                   storeLog, progressLog, dirCreated, disk,
                   pfVars, cleanVars, upVars>>

\* readFile, load and getPageCount succeed and totalPages <= pagesPerFile:
\* the to-disk functions return at once, the upload functions issue the
\* store call of the whole document
LoadNoSplit ==
    /\ pc = "read"
    /\ totalPages <= pagesPerFile
    /\ IF fn \in DiskFns
       THEN /\ pc' = "done"
            /\ result' = [success |-> TRUE, message |-> "No splitting needed",
                          totalPages |-> totalPages, files |-> <<>>]
            /\ UNCHANGED storeLog
       ELSE /\ pc' = "storeWhole"
            /\ storeLog' = Append(storeLog,
                              [unit |-> 0, filename |-> WholeFilename(fn, baseFilename),
                               bytes |-> OriginalBytes(totalPages), state |-> "inflight"])
            /\ UNCHANGED result
    /\ UNCHANGED <<fn, onProgress, baseFilename, totalPages, pagesPerFile, i, cur, files,
                   progressLog, dirCreated, disk,
                   pfVars, cleanVars, upVars>>

\* the store call of the whole document resolves: the function returns the
\* single record
StoreWholeResolve ==
    /\ pc = "storeWhole"
    /\ LET n == Len(storeLog)
           call == storeLog[n]
       IN /\ storeLog' = [storeLog EXCEPT ![n].state = "resolved"]
          /\ result' = [success |-> TRUE, message |-> "PDF uploaded without splitting",
                        totalPages |-> totalPages, totalFiles |-> 1,
                        uploadedFiles |-> <<[fileId |-> FileId(n),
                                             filename |-> call.filename,
                                             startPage |-> 1,
                                             endPage |-> totalPages,
                                             pageCount |-> totalPages]>>]
    /\ pc' = "done"
    /\ UNCHANGED <<fn, onProgress, baseFilename, totalPages, pagesPerFile, i, cur, files,
                   progressLog, dirCreated, disk,
                   pfVars, cleanVars, upVars>>

\* a store call rejects (whole document or a unit): the catch block returns
StoreReject ==
    /\ pc \in {"storeWhole", "store"}
    /\ storeLog' = [storeLog EXCEPT ![Len(storeLog)].state = "rejected"]
    /\ result' = Failure("store")
    /\ pc' = "done"
    /\ UNCHANGED <<fn, onProgress, baseFilename, totalPages, pagesPerFile, i, cur, files,
                   progressLog, dirCreated, disk,
                   pfVars, cleanVars, upVars>>

\* readFile, load and getPageCount succeed and totalPages > pagesPerFile
LoadSplit ==
    /\ pc = "read"
    /\ totalPages > pagesPerFile
    /\ pc' = IF fn \in DiskFns THEN "mkdir" ELSE "loop"
    /\ UNCHANGED <<fn, onProgress, baseFilename, totalPages, pagesPerFile, i, cur, files,
                   result, storeLog, progressLog, dirCreated, disk,
                   pfVars, cleanVars, upVars>>

\* fsPromises.mkdir(outputDir, {recursive: true})
Mkdir ==
    /\ pc = "mkdir"
    /\ dirCreated' = TRUE
    /\ pc' = "loop"
    /\ UNCHANGED <<fn, onProgress, baseFilename, totalPages, pagesPerFile, i, cur, files,
                   result, storeLog, progressLog, disk,
                   pfVars, cleanVars, upVars>>

\* one iteration up to its write or store call: create, copyPages, addPage,
\* the filename, save; the upload functions then issue the store call
Materialize ==
    /\ LoopReady(pc)
    /\ i < Ceil(totalPages, pagesPerFile)
    /\ LET startPage == StartPage(i, pagesPerFile)
           endPage == EndPage(startPage, pagesPerFile, totalPages)
           outputFilename == OutputFilename(baseFilename, i, startPage, endPage)
           pdfBytes == SavedBytes(PagesToCopy(startPage, endPage))
       IN /\ cur' = [startPage |-> startPage, endPage |-> endPage,
                     filename |-> outputFilename, bytes |-> pdfBytes]
          /\ IF fn \in DiskFns
             THEN pc' = "write" /\ UNCHANGED storeLog
             ELSE /\ pc' = "store"
                  /\ storeLog' = Append(storeLog,
                                    [unit |-> i + 1, filename |-> outputFilename,
                                     bytes |-> pdfBytes, state |-> "inflight"])
    /\ UNCHANGED <<fn, onProgress, baseFilename, totalPages, pagesPerFile, i, files,
                   result, progressLog, dirCreated, disk,
                   pfVars, cleanVars, upVars>>

\* create / copyPages / save / writeFile reject: the catch block returns
StepFail ==
    /\ pc \in {"mkdir", "loop", "write"}
    /\ pc = "loop" => i < Ceil(totalPages, pagesPerFile)
    /\ result' = Failure("io")
    /\ pc' = "done"
    /\ UNCHANGED <<fn, onProgress, baseFilename, totalPages, pagesPerFile, i, cur, files,
                   storeLog, progressLog, dirCreated, disk,
                   pfVars, cleanVars, upVars>>

\* writeFile resolves: push the record, call onProgress, next iteration
WriteFile ==
    /\ pc = "write"
    /\ disk' = disk \cup {[path |-> OutputPath(cur.filename), bytes |-> cur.bytes]}
    /\ files' = Append(files, [filename |-> cur.filename,
                               path |-> OutputPath(cur.filename),
                               startPage |-> cur.startPage + 1,
                               endPage |-> cur.endPage,
                               pageCount |-> cur.endPage - cur.startPage])
    /\ progressLog' = IF CallsProgress(fn, onProgress)
                      THEN Append(progressLog,
                                  ProgressArg(i, Ceil(totalPages, pagesPerFile),
                                              cur.filename, FALSE, ""))
                      ELSE progressLog
    /\ i' = i + 1
    /\ pc' = "loop"
    /\ UNCHANGED <<fn, onProgress, baseFilename, totalPages, pagesPerFile, cur, result,
                   storeLog, dirCreated,
                   pfVars, cleanVars, upVars>>

\* the store call of a unit resolves: push the record, call onProgress,
\* next iteration
StoreResolve ==
    /\ pc = "store"
    /\ LET n == Len(storeLog)
       IN /\ storeLog' = [storeLog EXCEPT ![n].state = "resolved"]
          /\ files' = Append(files, [fileId |-> FileId(n),
                                     filename |-> cur.filename,
                                     originalFilename |-> storeLog[n].filename,
                                     startPage |-> cur.startPage + 1,
                                     endPage |-> cur.endPage,
                                     pageCount |-> cur.endPage - cur.startPage,
                                     uploadedAt |-> n])
          /\ progressLog' = IF CallsProgress(fn, onProgress)
                            THEN Append(progressLog,
                                        ProgressArg(i, Ceil(totalPages, pagesPerFile),
                                                    cur.filename, TRUE, FileId(n)))
                            ELSE progressLog
    /\ i' = i + 1
    /\ pc' = "loop"
    /\ UNCHANGED <<fn, onProgress, baseFilename, totalPages, pagesPerFile, cur, result,
                   dirCreated, disk,
                   pfVars, cleanVars, upVars>>

\* the loop is over: the function returns the records
Return ==
    /\ pc = "loop"
    /\ ~(i < Ceil(totalPages, pagesPerFile))
    /\ result' = IF fn \in DiskFns
                 THEN [success |-> TRUE, message |-> "Successfully split",
                       totalPages |-> totalPages,
                       totalFiles |-> Ceil(totalPages, pagesPerFile),
                       pagesPerFile |-> pagesPerFile, files |-> files]
                 ELSE [success |-> TRUE, message |-> "Successfully split and uploaded",
                       totalPages |-> totalPages,
                       totalFiles |-> Ceil(totalPages, pagesPerFile),
                       pagesPerFile |-> pagesPerFile, uploadedFiles |-> files]
    /\ pc' = "done"
    /\ UNCHANGED <<fn, onProgress, baseFilename, totalPages, pagesPerFile, i, cur, files,
                   storeLog, progressLog, dirCreated, disk,
                   pfVars, cleanVars, upVars>>

SplitNext ==
    \/ LoadFail
    \/ LoadNoSplit
    \/ LoadSplit
    \/ Mkdir
    \/ Materialize
    \/ StepFail
    \/ WriteFile
    \/ StoreResolve
    \/ StoreWholeResolve
    \/ StoreReject
    \/ Return

Init == SplitInit /\ PfIdle /\ CleanIdle /\ UploadIdle

Next == SplitNext

Spec == Init /\ [][Next]_vars

(***************************************************************************)
(* Cleanup and parse of the merge response (texts are sequences of         *)
(* one-character strings).                                                 *)
(***************************************************************************)
\* the backtick character (a TLA+ string cannot hold it)
BT == "bt"

Fence == <<BT, BT, BT>>
FenceJson == Fence \o <<"j", "s", "o", "n">>

IsWS(c) == c \in {" ", "\n"}

StartsWith(s, pat) == Len(s) >= Len(pat) /\ SubSeq(s, 1, Len(pat)) = pat

\* RemoveAll that removes the first occurrence only (a replace without /g)
RECURSIVE RemoveFirst(_, _)
RemoveFirst(s, pat) ==
    IF Len(s) < Len(pat) THEN s
    ELSE IF StartsWith(s, pat) THEN SubSeq(s, Len(pat) + 1, Len(s))
    ELSE <<s[1]>> \o RemoveFirst(Tail(s), pat)

\* s.replace(/pat/g, ""): the occurrences found left to right, not
\* overlapping, are removed
RECURSIVE RemoveAll(_, _)
RemoveAll(s, pat) ==
    IF Len(s) < Len(pat) THEN s
    ELSE IF StartsWith(s, pat) THEN RemoveAll(SubSeq(s, Len(pat) + 1, Len(s)), pat)
    ELSE <<s[1]>> \o RemoveAll(Tail(s), pat)

RECURSIVE TrimStart(_)
TrimStart(s) == IF s # <<>> /\ IsWS(s[1]) THEN TrimStart(Tail(s)) ELSE s

RECURSIVE TrimEnd(_)
TrimEnd(s) ==
    IF s # <<>> /\ IsWS(s[Len(s)]) THEN TrimEnd(SubSeq(s, 1, Len(s) - 1)) ELSE s

\* s.trim()
Trim(s) == TrimEnd(TrimStart(s))

\* the cleanup chain: replace(fence-json, ""), replace(fence, ""), trim()
Clean(text) == Trim(RemoveAll(RemoveAll(text, FenceJson), Fence))

SyntaxError == [ok |-> FALSE, error |-> "SyntaxError"]

RECURSIVE SkipWS(_, _)
SkipWS(s, p) == IF p <= Len(s) /\ IsWS(s[p]) THEN SkipWS(s, p + 1) ELSE p

\* the position after the digits starting at p
RECURSIVE NumEnd(_, _)
NumEnd(s, p) == IF p <= Len(s) /\ s[p] = "1" THEN NumEnd(s, p + 1) ELSE p

\* the position of the quote closing the string whose content starts at p;
\* 0 when the string is not closed or holds a control character
RECURSIVE StrEnd(_, _)
StrEnd(s, p) ==
    IF p > Len(s) THEN 0
    ELSE IF s[p] = "\"" THEN p
    ELSE IF s[p] = "\n" THEN 0
    ELSE StrEnd(s, p + 1)

\* a JSON value starting at p: a number, a string or an array of values;
\* [ok, val, next] with next the position after the value
RECURSIVE ParseValue(_, _)
RECURSIVE ParseElems(_, _, _)
ParseValue(s, p) ==
    IF p > Len(s) THEN SyntaxError
    ELSE IF s[p] = "1"
    THEN [ok |-> TRUE, val |-> <<"num", SubSeq(s, p, NumEnd(s, p) - 1)>>,
          next |-> NumEnd(s, p)]
    ELSE IF s[p] = "\""
    THEN LET q == StrEnd(s, p + 1)
         IN IF q = 0 THEN SyntaxError
            ELSE [ok |-> TRUE, val |-> <<"str", SubSeq(s, p + 1, q - 1)>>, next |-> q + 1]
    ELSE IF s[p] = "["
    THEN LET q == SkipWS(s, p + 1)
         IN IF q <= Len(s) /\ s[q] = "]"
            THEN [ok |-> TRUE, val |-> <<"arr", <<>>>>, next |-> q + 1]
            ELSE ParseElems(s, q, <<>>)
    ELSE SyntaxError

\* the elements of an array from p on, acc the elements parsed so far
ParseElems(s, p, acc) ==
    LET v == ParseValue(s, p)
    IN IF ~v.ok THEN SyntaxError
       ELSE LET q == SkipWS(s, v.next)
            IN IF q > Len(s) THEN SyntaxError
               ELSE IF s[q] = "]"
               THEN [ok |-> TRUE, val |-> <<"arr", Append(acc, v.val)>>, next |-> q + 1]
               ELSE IF s[q] = ","
               THEN ParseElems(s, SkipWS(s, q + 1), Append(acc, v.val))
               ELSE SyntaxError

\* JSON.parse(s): the value, or the SyntaxError it throws
JSONParse(s) ==
    LET v == ParseValue(s, SkipWS(s, 1))
    IN IF v.ok /\ SkipWS(s, v.next) = Len(s) + 1
       THEN [ok |-> TRUE, val |-> v.val]
       ELSE SyntaxError

\* JSON.parse of the cleaned text
ParseCleaned(text) == JSONParse(Clean(text))

\* a text wrapped in a ```json ... ``` code fence
Wrap(x, sep) == FenceJson \o sep \o x \o sep \o Fence

(***************************************************************************)
(* The cleanup of one response text, plain and wrapped.                    *)
(***************************************************************************)
MaxPieces == 4

Pieces == {<<BT>>, Fence, <<"j", "s", "o", "n">>, <<"\n">>, <<"[">>, <<"]">>, <<"1">>,
           <<"\"">>}

Separators == {<<>>, <<"\n">>}

RECURSIVE Flatten(_)
Flatten(ps) == IF ps = <<>> THEN <<>> ELSE ps[1] \o Flatten(Tail(ps))

Texts == {Flatten(ps) : ps \in UNION {[1..n -> Pieces] : n \in 0..MaxPieces}}

SplitIdle ==
    /\ fn = "none"
    /\ onProgress = FALSE
    /\ baseFilename = ""
    /\ totalPages = 0
    /\ pagesPerFile = 1
    /\ pc = "idle"
    /\ i = 0
    /\ cur = NoValue
    /\ files = <<>>
    /\ result = NoValue
    /\ storeLog = <<>>
    /\ progressLog = <<>>
    /\ dirCreated = FALSE
    /\ disk = {}

CleanInit ==
    /\ cx \in Texts
    /\ csep \in Separators
    /\ cplain = NoValue
    /\ cwrapped = NoValue

CleanPlain ==
    /\ cplain = NoValue
    /\ cplain' = ParseCleaned(cx)
    /\ UNCHANGED <<cx, csep, cwrapped, splitVars, pfVars, upVars>>

CleanWrapped ==
    /\ cwrapped = NoValue
    /\ cwrapped' = ParseCleaned(Wrap(cx, csep))
    /\ UNCHANGED <<cx, csep, cplain, splitVars, pfVars, upVars>>

InitCleanup == SplitIdle /\ PfIdle /\ CleanInit /\ UploadIdle

NextCleanup == CleanPlain \/ CleanWrapped

SpecCleanup == InitCleanup /\ [][NextCleanup]_vars

\* C10: for every response text x, x wrapped in a ```json ... ``` code fence
\* is cleaned and parsed to the same result (the same value, or the same
\* failure) as x unwrapped.
C10_FenceTransparent ==
    (cplain # NoValue /\ cwrapped # NoValue) => cplain = cwrapped

C10_Witness ==
    /\ cplain # NoValue
    /\ cwrapped # NoValue
    /\ cplain.ok
    /\ cplain.val = <<"str", <<>>>>
    /\ \E k \in 1..Len(cx) : cx[k] = BT

(***************************************************************************)
(* processFiles: the extraction fan-out, the merge call, cleanup, parse    *)
(* and write.                                                              *)
(***************************************************************************)
\* the number of entries of `results`
NumRecords == 4

MaxClock == 1

Records == 1..NumRecords

\* the texts an analyze response may carry
Payloads == {<<"[", "]">>, <<"[", "1", "]">>}

\* an analyze response without content, or whose first block has no text
NoText == [present |-> FALSE]

HasText(t) == [present |-> TRUE, text |-> t]

\* response.content?.[0]?.text || ''
ContentOf(response) == IF response.present THEN response.text ELSE <<>>

\* JoinWith that leaves out the separators
RECURSIVE JoinNoSeparator(_, _)
JoinNoSeparator(parts, sep) ==
    IF parts = <<>> THEN <<>> ELSE parts[1] \o JoinNoSeparator(Tail(parts), sep)

\* parts.join(sep)
RECURSIVE JoinWith(_, _)
JoinWith(parts, sep) ==
    IF parts = <<>> THEN <<>>
    ELSE IF Len(parts) = 1 THEN parts[1]
    ELSE parts[1] \o sep \o JoinWith(Tail(parts), sep)

\* responses.join('\n')
CombinedResults(responses) == JoinWith(responses, <<"\n">>)

\* the merge responses: a text, a first block without text, or no block
MergeTexts == {Wrap(<<"[", "1", "]">>, <<"\n">>), <<"[", "]">>, <<"j">>, <<>>,
               <<"[", BT, BT, BT, "]">>}

MergeMessages ==
    {[blocks |-> 1, hasText |-> TRUE, text |-> t] : t \in MergeTexts}
        \cup {[blocks |-> 1, hasText |-> FALSE], [blocks |-> 0, hasText |-> FALSE]}

\* `output_${Date.now()}.json`
OutputName(t) == "output_" \o NumToStr(t) \o ".json"

AllResolved(cs) == \A k \in DOMAIN cs : cs[k].state = "resolved"

\* processFiles is called
PfStart ==
    /\ ppc = "start"
    /\ calls = [k \in Records |-> [state |-> "idle", content |-> <<>>, seq |-> 0]]
    /\ mergeLog = <<>>
    /\ parsed = NoValue
    /\ outFiles = <<>>
    /\ console = <<>>
    /\ now \in 0..MaxClock
    /\ mergeMsg = NoValue

PfInit == PfStart /\ otherRun = "none"

\* results.map(async file => ...) inside Promise.all: every callback runs up
\* to its await, so every messages.create call is issued
Launch ==
    /\ ppc = "start"
    /\ calls' = [k \in Records |-> [state |-> "inflight", content |-> <<>>, seq |-> 0]]
    /\ ppc' = "awaitAll"
    /\ UNCHANGED <<mergeLog, parsed, outFiles, console, now, mergeMsg, otherRun, splitVars,
                   cleanVars, upVars>>

\* the number of promises of cs settled so far
Settled(cs) ==
    Cardinality({k \in DOMAIN cs : cs[k].state \in {"resolved", "rejected"}})

\* PromiseAllValues in the order in which the promises were fulfilled
PromiseAllValuesByCompletion(cs) ==
    [n \in DOMAIN cs |-> cs[CHOOSE k \in DOMAIN cs : cs[k].seq = n].content]

\* the array Promise.all fulfils with: the value of the k-th promise at
\* index k
PromiseAllValues(cs) == [k \in DOMAIN cs |-> cs[k].content]

\* PromiseAll that waits for every call and never rejects (allSettled)
PromiseAllSettled(cs) ==
    IF \A k \in DOMAIN cs : cs[k].state \in {"resolved", "rejected"}
    THEN "fulfilled" ELSE "pending"

\* the state of Promise.all over the callbacks' promises: rejected as soon as
\* one rejects, fulfilled when all are fulfilled
PromiseAll(cs) ==
    IF \E k \in DOMAIN cs : cs[k].state = "rejected" THEN "rejected"
    ELSE IF AllResolved(cs) THEN "fulfilled"
    ELSE "pending"

\* processFiles resumes from `await Promise.all(...)` when that settles:
\* fulfilled, it joins the responses and issues the merge call; rejected,
\* its outer catch logs the error
ResumeAfterAll(cs) ==
    IF ppc = "awaitAll" /\ PromiseAll(cs) = "fulfilled"
    THEN /\ mergeLog' = Append(mergeLog,
                               CombinedResults(PromiseAllValues(cs)))
         /\ ppc' = "merge"
         /\ UNCHANGED console
    ELSE IF ppc = "awaitAll" /\ PromiseAll(cs) = "rejected"
    THEN /\ console' = Append(console, [kind |-> "uploadError"])
         /\ ppc' = "done"
         /\ UNCHANGED mergeLog
    ELSE UNCHANGED <<mergeLog, ppc, console>>

\* the analyze call of record k resolves and its callback returns the text
AnalyzeResolve(k) ==
    /\ ppc # "idle"
    /\ calls[k].state = "inflight"
    /\ \E response \in {HasText(t) : t \in Payloads} \cup {NoText} :
          LET cs == [calls EXCEPT ![k] = [state |-> "resolved",
                                          content |-> ContentOf(response),
                                          seq |-> Settled(calls) + 1]]
          IN calls' = cs /\ ResumeAfterAll(cs)
    /\ UNCHANGED <<parsed, outFiles, now, mergeMsg, otherRun, splitVars, cleanVars, upVars>>

\* the analyze call of record k rejects, and so does its callback's promise
AnalyzeReject(k) ==
    /\ ppc # "idle"
    /\ calls[k].state = "inflight"
    /\ LET cs == [calls EXCEPT ![k].state = "rejected", ![k].seq = Settled(calls) + 1]
       IN calls' = cs /\ ResumeAfterAll(cs)
    /\ UNCHANGED <<parsed, outFiles, now, mergeMsg, otherRun, splitVars, cleanVars, upVars>>

\* the merge call rejects: the outer catch logs the error
MergeReject ==
    /\ ppc = "merge"
    /\ console' = Append(console, [kind |-> "uploadError"])
    /\ ppc' = "done"
    /\ UNCHANGED <<calls, mergeLog, parsed, outFiles, now, mergeMsg, otherRun, splitVars,
                   cleanVars, upVars>>

\* the merge call resolves with msg: clean, parse, write; the inner catch
\* logs the error and the raw text, and the outer catch takes over when
\* reading the raw text throws
MergeResolve(msg, writeThrows) ==
    /\ ppc = "merge"
    /\ ppc' = "done"
    /\ IF msg.blocks = 0
       THEN /\ console' = console \o <<[kind |-> "invalidJson"], [kind |-> "uploadError"]>>
            /\ UNCHANGED <<parsed, outFiles>>
       ELSE IF ~msg.hasText
       THEN /\ console' = console \o <<[kind |-> "invalidJson"],
                                       [kind |-> "rawText", text |-> "undefined"]>>
            /\ UNCHANGED <<parsed, outFiles>>
       ELSE LET jsonData == ParseCleaned(msg.text)
            IN IF ~jsonData.ok
               THEN /\ console' = console \o <<[kind |-> "invalidJson"],
                                               [kind |-> "rawText", text |-> msg.text]>>
                    /\ UNCHANGED <<parsed, outFiles>>
               ELSE /\ parsed' = jsonData
                    /\ IF writeThrows
                       THEN /\ console' = console \o <<[kind |-> "invalidJson"],
                                                       [kind |-> "rawText",
                                                        text |-> msg.text]>>
                            /\ UNCHANGED outFiles
                       ELSE /\ outFiles' = Append(outFiles, [name |-> OutputName(now),
                                                             data |-> jsonData.val])
                            /\ console' = Append(console, [kind |-> "saved",
                                                           file |-> OutputName(now)])
    /\ mergeMsg' = msg
    /\ UNCHANGED <<calls, mergeLog, now, otherRun, splitVars, cleanVars, upVars>>

\* time passes
Tick ==
    /\ ppc # "idle"
    /\ now < MaxClock
    /\ now' = now + 1
    /\ UNCHANGED <<ppc, calls, mergeLog, parsed, outFiles, console, mergeMsg, otherRun,
                   splitVars, cleanVars, upVars>>

InitProcessFiles == SplitIdle /\ PfInit /\ CleanIdle /\ UploadIdle

NextProcessFiles ==
    \/ Launch
    \/ \E k \in Records : AnalyzeResolve(k)
    \/ \E k \in Records : AnalyzeReject(k)
    \/ MergeReject
    \/ \E msg \in MergeMessages, writeThrows \in BOOLEAN : MergeResolve(msg, writeThrows)
    \/ Tick

SpecProcessFiles == InitProcessFiles /\ [][NextProcessFiles]_vars

(***************************************************************************)
(* Two runs of processFiles (two processes started in the same directory): *)
(* the run above, and a second one of which only the write is modelled.    *)
(***************************************************************************)
\* the second run reaches its write: filePath from Date.now(), writeFileSync
OtherRunWrite ==
    /\ otherRun = "running"
    /\ outFiles' = Append(outFiles, [name |-> OutputName(now), data |-> <<"arr", <<>>>>])
    /\ otherRun' = "done"
    /\ UNCHANGED <<ppc, calls, mergeLog, parsed, console, now, mergeMsg, splitVars,
                   cleanVars, upVars>>

InitRuns == SplitIdle /\ PfStart /\ otherRun = "running" /\ CleanIdle /\ UploadIdle

NextRuns ==
    \/ Launch
    \/ \E k \in Records : AnalyzeResolve(k)
    \/ \E k \in Records : AnalyzeReject(k)
    \/ MergeReject
    \/ \E msg \in MergeMessages, writeThrows \in BOOLEAN : MergeResolve(msg, writeThrows)
    \/ Tick
    \/ OtherRunWrite

SpecRuns == InitRuns /\ [][NextRuns]_vars

\* C13: each successful processFiles run persists its tree once, under a
\* fresh name output_{epochMillis}.json: no run writes to a file name already
\* written by a prior or concurrently running run, so no earlier output is
\* overwritten.
C13_FreshNames ==
    /\ Len(outFiles) <= 2
    /\ \A a, b \in 1..Len(outFiles) : outFiles[a].name = outFiles[b].name => a = b

(***************************************************************************)
(* The upload-all script: one toFile / upload chain per page file, all     *)
(* under Promise.all.                                                      *)
(***************************************************************************)
\* the number of entries of pageFiles
NumPageFiles == 4

PageFiles == <<"fifty.pdf", "hundred.pdf", "oneFifty.pdf", "end.pdf">>

PageIndex == 1..NumPageFiles

\* a chain before anything happened: state, upload calls issued, the value
\* it resolved with, and its place in the order of settlement
NewChain(st) == [state |-> st, issued |-> 0, content |-> NoValue, seq |-> 0]

UploadInit ==
    /\ spc = "start"
    /\ chains = [k \in PageIndex |-> NewChain("idle")]
    /\ uploadLog = <<>>

\* a page file does not exist: process.exit(1) before any upload
MissingFiles ==
    /\ spc = "start"
    /\ spc' = "exited"
    /\ UNCHANGED <<chains, uploadLog, splitVars, pfVars, cleanVars>>

\* pageFiles.map(...) inside Promise.all: every chain starts with its toFile
StartUploads ==
    /\ spc = "start"
    /\ chains' = [k \in PageIndex |-> NewChain("toFile")]
    /\ spc' = "awaitAll"
    /\ UNCHANGED <<uploadLog, splitVars, pfVars, cleanVars>>

\* CanLaunchUpload that also waits for the upload of the previous page file
CanLaunchUploadInTurn(cs, k) ==
    cs[k].state = "toFile" /\ (k = 1 \/ cs[k - 1].state = "resolved")

\* the upload of page file k is issued by the then-handler of its own toFile
CanLaunchUpload(cs, k) == cs[k].state = "toFile"

\* the script after a chain settled: Promise.all fulfilled, its then-handler
\* logs the results paired with pageFiles by index; rejected, its
\* catch-handler ends the process
ResumeUploads(cs) ==
    IF PromiseAll(cs) = "fulfilled"
    THEN /\ uploadLog' = [n \in PageIndex |->
                             [file |-> PageFiles[n], id |-> PromiseAllValues(cs)[n].id]]
         /\ spc' = "done"
    ELSE IF PromiseAll(cs) = "rejected"
    THEN spc' = "exited" /\ UNCHANGED uploadLog
    ELSE UNCHANGED <<spc, uploadLog>>

\* toFile of page file k resolves: files.upload is called with the file
ToFileResolve(k) ==
    /\ spc = "awaitAll"
    /\ CanLaunchUpload(chains, k)
    /\ chains' = [chains EXCEPT ![k].state = "uploading", ![k].issued = @ + 1]
    /\ UNCHANGED <<spc, uploadLog, splitVars, pfVars, cleanVars>>

\* toFile of page file k rejects: the chain's catch-handler rethrows
ToFileReject(k) ==
    /\ spc = "awaitAll"
    /\ chains[k].state = "toFile"
    /\ LET cs == [chains EXCEPT ![k].state = "rejected", ![k].seq = Settled(chains) + 1]
       IN chains' = cs /\ ResumeUploads(cs)
    /\ UNCHANGED <<splitVars, pfVars, cleanVars>>

\* the upload of page file k resolves with the stored file's identifier
UploadResolve(k) ==
    /\ spc = "awaitAll"
    /\ chains[k].state = "uploading"
    /\ LET n == Settled(chains) + 1
           cs == [chains EXCEPT ![k].state = "resolved", ![k].seq = n,
                                ![k].content = [id |-> FileId(n), stored |-> PageFiles[k]]]
       IN chains' = cs /\ ResumeUploads(cs)
    /\ UNCHANGED <<splitVars, pfVars, cleanVars>>

\* the upload of page file k rejects: the chain's catch-handler rethrows
UploadReject(k) ==
    /\ spc = "awaitAll"
    /\ chains[k].state = "uploading"
    /\ LET cs == [chains EXCEPT ![k].state = "rejected", ![k].seq = Settled(chains) + 1]
       IN chains' = cs /\ ResumeUploads(cs)
    /\ UNCHANGED <<splitVars, pfVars, cleanVars>>

(***************************************************************************)
(* The two fan-outs: a behaviour is a run of processFiles or a run of the  *)
(* upload-all script.                                                      *)
(***************************************************************************)
InitFanOut ==
    /\ SplitIdle
    /\ CleanIdle
    /\ \/ PfInit /\ UploadIdle
       \/ PfIdle /\ UploadInit

NextFanOut ==
    \/ Launch
    \/ \E k \in Records : AnalyzeResolve(k)
    \/ \E k \in Records : AnalyzeReject(k)
    \/ MergeReject
    \/ \E msg \in MergeMessages, writeThrows \in BOOLEAN : MergeResolve(msg, writeThrows)
    \/ Tick
    \/ MissingFiles
    \/ StartUploads
    \/ \E k \in PageIndex : ToFileResolve(k)
    \/ \E k \in PageIndex : ToFileReject(k)
    \/ \E k \in PageIndex : UploadResolve(k)
    \/ \E k \in PageIndex : UploadReject(k)

SpecFanOut == InitFanOut /\ [][NextFanOut]_vars

(***************************************************************************)
(* Properties of the two fan-outs.                                         *)
(***************************************************************************)
PfRuns == ppc # "idle"
ScriptRuns == spc # "idle"

\* the upload call of page file k was issued
UploadIssued(k) == chains[k].issued > 0

\* C14: each fan-out issues exactly one call per input record and launches
\* all N of them before it awaits any result, and no call's launch waits for
\* another call's completion (all N can be in flight together).
\* processFiles issues its N analyze calls in the map, before the await of
\* Promise.all.  The script starts its N toFile / upload chains in the map,
\* before Promise.all is awaited; a chain issues its upload request once,
\* when its own toFile resolves, whatever the other chains are doing.
C14_FanOut ==
    /\ PfRuns =>
          /\ DOMAIN calls = Records
          /\ ppc # "start" => \A k \in Records : calls[k].state # "idle"
          /\ ppc = "start" => \A k \in Records : calls[k].state = "idle"
    /\ ScriptRuns =>
          /\ DOMAIN chains = PageIndex
          /\ spc = "awaitAll" => \A k \in PageIndex : chains[k].state # "idle"
          /\ \A k \in PageIndex :
                /\ chains[k].issued <= 1
                /\ chains[k].state \in {"uploading", "resolved"} => chains[k].issued = 1
                /\ chains[k].state \in {"idle", "toFile"} => chains[k].issued = 0
                /\ (spc = "awaitAll" /\ chains[k].state = "toFile")
                      => ENABLED ToFileResolve(k)
          /\ spc = "done" => \A k \in PageIndex : chains[k].issued = 1

C14_Witness ==
    /\ spc = "awaitAll"
    /\ \A k \in PageIndex : chains[k].state = "uploading"

\* the payloads of records 1..k joined with newlines, in input order
RECURSIVE ConcatUpTo(_)
ConcatUpTo(k) ==
    IF k = 1 THEN calls[1].content
    ELSE ConcatUpTo(k - 1) \o <<"\n">> \o calls[k].content

\* C15: when all N calls succeed the collected results are in input order
\* whatever the order of completion: the text sent to merge is the payloads
\* in input order, and the script pairs pageFiles[i] with the identifier
\* under which page file i was stored.
C15_InputOrder ==
    /\ (PfRuns /\ mergeLog # <<>>) => mergeLog[1] = ConcatUpTo(NumRecords)
    /\ (ScriptRuns /\ spc = "done") =>
          /\ Len(uploadLog) = NumPageFiles
          /\ \A n \in PageIndex :
                /\ uploadLog[n].file = PageFiles[n]
                /\ chains[n].content.stored = uploadLog[n].file
                /\ chains[n].content.id = uploadLog[n].id

C15_Witness ==
    /\ spc = "done"
    /\ chains[1].seq = NumPageFiles
    /\ chains[NumPageFiles].seq = 1
    /\ uploadLog[1].id = FileId(NumPageFiles)

(***************************************************************************)
(* Properties of processFiles.                                             *)
(***************************************************************************)
AnyRejected == \E k \in Records : calls[k].state = "rejected"

\* C8: if any of the analyze calls rejects, whatever the other calls do, the
\* run ends in failure: the merge call is never issued, nothing is parsed
\* and no output file is written.
C8_RejectAborts ==
    AnyRejected =>
        /\ ppc = "done"
        /\ mergeLog = <<>>
        /\ parsed = NoValue
        /\ outFiles = <<>>
        /\ console = <<[kind |-> "uploadError"]>>

C8_Witness ==
    /\ AnyRejected
    /\ Cardinality({k \in Records : calls[k].state = "resolved"}) = NumRecords - 1
    /\ \E k \in Records : calls[k].state = "rejected" /\ k # NumRecords

\* the position in the merge message at which the payload of record k starts
RECURSIVE OffsetOf(_)
OffsetOf(k) == IF k = 1 THEN 1 ELSE OffsetOf(k - 1) + Len(calls[k - 1].content) + 1

\* C9: when all analyze calls succeed the merge is invoked exactly once,
\* only after every analyze call resolved, and its user message is the
\* payloads joined with newlines, none missing or duplicated; merge is never
\* invoked more than once.
C9_OneMerge ==
    /\ Len(mergeLog) <= 1
    /\ mergeLog # <<>> => AllResolved(calls)
    /\ (AllResolved(calls) /\ ppc \in {"merge", "done"}) => Len(mergeLog) = 1
    /\ AllResolved(calls) => ppc \in {"merge", "done"}
    /\ mergeLog # <<>> =>
          LET m == mergeLog[1]
          IN /\ Len(m) = OffsetOf(NumRecords) + Len(calls[NumRecords].content) - 1
             /\ \A k \in Records :
                   /\ SubSeq(m, OffsetOf(k), OffsetOf(k) + Len(calls[k].content) - 1)
                         = calls[k].content
                   /\ k < NumRecords => m[OffsetOf(k) + Len(calls[k].content)] = "\n"

C9_Witness ==
    /\ ppc = "done"
    /\ Len(mergeLog) = 1
    /\ outFiles # <<>>
    /\ calls[1].content = <<>>
    /\ calls[2].content = <<"[", "1", "]">>
    /\ calls[NumRecords].content = <<"[", "]">>

\* the merge response is not valid structured data after cleanup, or has no
\* text at all
InvalidResponse(msg) ==
    \/ msg.blocks = 0
    \/ ~msg.hasText
    \/ ~ParseCleaned(msg.text).ok

\* what the response holds as its text
RawTextOf(msg) == IF msg.blocks = 1 /\ msg.hasText THEN msg.text ELSE "undefined"

ConsoleKinds == {console[n].kind : n \in 1..Len(console)}

\* C11: if the merge response, after cleanup, is not valid structured data
\* (an empty or missing response text included), processFiles ends in a
\* consolidation failure in which the raw uncleaned response text is logged
\* and no output file is written; the failure does not pass silently and does
\* not escape processFiles.
C11_RawTextLogged ==
    (ppc = "done" /\ mergeMsg # NoValue /\ InvalidResponse(mergeMsg)) =>
        /\ outFiles = <<>>
        /\ parsed = NoValue
        /\ console # <<>>
        /\ ConsoleKinds = {"invalidJson", "rawText"}
        /\ \E n \in 1..Len(console) :
              console[n].kind = "rawText" /\ console[n].text = RawTextOf(mergeMsg)

(***************************************************************************)
(* Properties of the split run.                                            *)
(***************************************************************************)
Done == pc = "done"
Succeeded == pc = "done" /\ result.success

\* the records a successful run returned
ReturnedFiles == IF fn \in DiskFns THEN result.files ELSE result.uploadedFiles

\* the 0-based half-open page range [s, e) of a record
RangeOf(rec) == <<rec.startPage - 1, rec.endPage>>

\* the ranges rs are contiguous from 0, inside [0, t), and every page of
\* [0, t) lies in exactly one of them
PartitionOf(rs, t) ==
    /\ \A k \in 1..Len(rs) : 0 <= rs[k][1] /\ rs[k][1] <= rs[k][2] /\ rs[k][2] <= t
    /\ \A k \in 1..(Len(rs) - 1) : rs[k + 1][1] = rs[k][2]
    /\ \A p \in 0..(t - 1) :
          Cardinality({k \in 1..Len(rs) : rs[k][1] <= p /\ p < rs[k][2]}) = 1

ReturnedRanges == [k \in 1..Len(ReturnedFiles) |-> RangeOf(ReturnedFiles[k])]

\* C1 as stated: for every T >= 0 and P >= 1 the ranges of a successful run
\* of any of the four functions partition [0, T) exactly.
C1_AllRunsPartition == Succeeded => PartitionOf(ReturnedRanges, totalPages)

\* C1 amended: the ranges of a successful run partition [0, T) exactly when
\* T > P (all four functions) and, for the upload functions, also when
\* T <= P (one record spanning the document); the to-disk functions return
\* zero ranges when T <= P.
C1_Partition ==
    Succeeded =>
        IF fn \in DiskFns /\ totalPages <= pagesPerFile
        THEN ReturnedRanges = <<>>
        ELSE PartitionOf(ReturnedRanges, totalPages)

C1_Witness ==
    /\ Succeeded
    /\ totalPages > pagesPerFile
    /\ Len(ReturnedRanges) >= 3
    /\ totalPages % pagesPerFile # 0

RECURSIVE SumLengths(_)
SumLengths(rs) ==
    IF rs = <<>> THEN 0 ELSE (rs[1][2] - rs[1][1]) + SumLengths(Tail(rs))

\* the least n with n * p >= t
LeastCover(t, p) == CHOOSE n \in 0..t : n * p >= t /\ \A m \in 0..(n - 1) : m * p < t

\* C2: for T > P a (successful) split run produces exactly ceil(T/P) ranges,
\* the i-th being [i*P, min((i+1)*P, T)); the lengths sum to T, every range
\* but the last has length P and the last has length 1..P.  Every record
\* produced so far, in failed runs too, is the range of its index.
C2_Ranges ==
    totalPages > pagesPerFile =>
        /\ \A k \in 1..Len(files) :
              RangeOf(files[k]) =
                  <<(k - 1) * pagesPerFile,
                    IF k * pagesPerFile <= totalPages THEN k * pagesPerFile ELSE totalPages>>
        /\ Succeeded =>
              LET rs == ReturnedRanges
                  n == Len(rs)
              IN /\ n = LeastCover(totalPages, pagesPerFile)
                 /\ result.totalFiles = n
                 /\ ReturnedFiles = files
                 /\ SumLengths(rs) = totalPages
                 /\ \A k \in 1..(n - 1) : rs[k][2] - rs[k][1] = pagesPerFile
                 /\ rs[n][2] - rs[n][1] >= 1
                 /\ rs[n][2] - rs[n][1] <= pagesPerFile

C2_Witness ==
    /\ Succeeded
    /\ totalPages > pagesPerFile
    /\ totalPages % pagesPerFile = 0
    /\ Len(ReturnedFiles) = 3

\* the run ended in the catch block before the page count was known
LoadFailed == Done /\ ~result.success /\ result.error = "load"

StoreCallsOf(st) == {k \in 1..Len(storeLog) : storeLog[k].state = st}

\* C3: when T <= P no split happens.  The to-disk functions return success
\* with an empty file list, create no directory and write no file.  The
\* upload functions perform exactly one store call, carrying the original
\* bytes, and, that call resolving, return success with totalFiles = 1 and a
\* single record spanning pages 1..T with pageCount = T.
C3_NoSplit ==
    (Done /\ totalPages <= pagesPerFile /\ ~LoadFailed) =>
        IF fn \in DiskFns
        THEN /\ result.success
             /\ result.files = <<>>
             /\ ~dirCreated
             /\ disk = {}
             /\ storeLog = <<>>
        ELSE /\ Len(storeLog) = 1
             /\ storeLog[1].bytes.kind = "original"
             /\ storeLog[1].bytes.pages = [k \in 1..totalPages |-> k - 1]
             /\ disk = {}
             /\ result.success <=> storeLog[1].state = "resolved"
             /\ result.success =>
                   /\ result.totalFiles = 1
                   /\ Len(result.uploadedFiles) = 1
                   /\ result.uploadedFiles[1].startPage = 1
                   /\ result.uploadedFiles[1].endPage = totalPages
                   /\ result.uploadedFiles[1].pageCount = totalPages

C3_Witness ==
    /\ Succeeded
    /\ fn \in UploadFns
    /\ totalPages = 30
    /\ pagesPerFile = DefaultPagesPerFile
    /\ result.totalFiles = 1

\* the name the convention gives unit k (1-based) with 1-based pages s1..e
ConventionName(base, k, s1, e) ==
    base \o "_part_" \o ToString(k) \o "_pages_" \o ToString(s1) \o "-" \o ToString(e)
         \o ".pdf"

\* C4: in a split run the unit with 1-based index k covering [s, e) is named
\* {baseName}_part_{k}_pages_{s+1}-{e}.pdf and reported with startPage = s+1,
\* endPage = e, pageCount = e - s = endPage - startPage + 1, whichever of the
\* four functions runs; T=120, P=50 gives doc_part_1_pages_1-50.pdf,
\* doc_part_2_pages_51-100.pdf, doc_part_3_pages_101-120.pdf.
C4_Names ==
    /\ \A k \in 1..Len(files) :
          LET s == (k - 1) * pagesPerFile
              e == IF k * pagesPerFile <= totalPages THEN k * pagesPerFile ELSE totalPages
          IN /\ files[k].filename = ConventionName(baseFilename, k, s + 1, e)
             /\ files[k].startPage = s + 1
             /\ files[k].endPage = e
             /\ files[k].pageCount = e - s
             /\ files[k].pageCount = files[k].endPage - files[k].startPage + 1
             /\ fn \in UploadFns => storeLog[k].filename = files[k].filename
             /\ fn \in DiskFns =>
                   \E f \in disk : f.path = OutputPath(files[k].filename)
    /\ (Succeeded /\ totalPages = 120 /\ pagesPerFile = 50 /\ baseFilename = "doc") =>
          [k \in 1..Len(ReturnedFiles) |-> ReturnedFiles[k].filename] =
              <<"doc_part_1_pages_1-50.pdf", "doc_part_2_pages_51-100.pdf",
                "doc_part_3_pages_101-120.pdf">>

C4_Witness ==
    /\ Succeeded
    /\ fn = "splitBufferAndUpload"
    /\ totalPages = 120
    /\ pagesPerFile = 50
    /\ baseFilename = "doc"
    /\ Len(ReturnedFiles) = 3

\* C5: in the upload functions at most one store call is in flight; the
\* store call of unit k+1 starts only after that of unit k resolved and its
\* progress callback returned; the callbacks come in index order 1..n, each
\* after its own store call resolved, and the records are in the same order.
C5_Sequential ==
    fn \in UploadFns =>
        /\ Cardinality(StoreCallsOf("inflight")) <= 1
        /\ \A k \in 1..Len(storeLog) :
              /\ storeLog[k].state # "resolved" => k = Len(storeLog)
              /\ storeLog[k].state = "inflight" =>
                    /\ Len(files) = IF storeLog[k].unit = 0 THEN 0 ELSE k - 1
                    /\ CallsProgress(fn, onProgress) => Len(progressLog) = Len(files)
              /\ storeLog[k].unit # 0 => storeLog[k].unit = k
        /\ Len(progressLog) <= Cardinality(StoreCallsOf("resolved"))
        /\ \A j \in 1..Len(progressLog) :
              /\ progressLog[j].current = j
              /\ storeLog[j].state = "resolved"
              /\ progressLog[j].currentFile = storeLog[j].filename
              /\ progressLog[j].fileId = files[j].fileId
        /\ \A k \in 1..Len(files) :
              /\ storeLog[k].state = "resolved"
              /\ files[k].filename = storeLog[k].filename
              /\ files[k].startPage = (k - 1) * pagesPerFile + 1
        /\ (Succeeded /\ totalPages > pagesPerFile) => result.uploadedFiles = files

C5_Witness ==
    /\ fn \in UploadFns
    /\ onProgress
    /\ pc = "store"
    /\ Len(storeLog) = 3
    /\ Len(progressLog) = 2

\* the external identifiers of the store calls that resolved
ResolvedIds == {FileId(k) : k \in StoreCallsOf("resolved")}

\* the identifiers handed to the progress callback
ProgressIds == {progressLog[j].fileId : j \in 1..Len(progressLog)}

StoreFailed == Done /\ fn \in UploadFns /\ StoreCallsOf("rejected") # {}

\* after a store call was rejected: it was the last call issued, no unit was
\* stored twice, and the function resolved with {success:false, error,
\* details} and nothing else
AbortedRun ==
    /\ StoreCallsOf("rejected") = {Len(storeLog)}
    /\ \A a, b \in 1..Len(storeLog) : storeLog[a].unit = storeLog[b].unit => a = b
    /\ DOMAIN result = {"success", "error", "details"}
    /\ result.success = FALSE

\* C6 as stated: if the store call of unit k fails the run is aborted, no
\* later store call and no retry is made, the function resolves with
\* {success:false, error, details}, and no UploadRecord or external
\* identifier of units 1..k-1 is surfaced to the caller in that run.
C6_NothingSurfaced == StoreFailed => (AbortedRun /\ ProgressIds = {})

\* C6 amended: ... the value the function resolves with carries no
\* UploadRecord and no external identifier; the identifiers of units 1..k-1
\* have reached the caller only through the progress callbacks already made,
\* when a callback was supplied.
C6_Abort ==
    StoreFailed =>
        /\ AbortedRun
        /\ ProgressIds = IF CallsProgress(fn, onProgress) THEN ResolvedIds ELSE {}

C6_Witness ==
    /\ StoreFailed
    /\ onProgress
    /\ Len(storeLog) = 3
    /\ Cardinality(ProgressIds) = 2

\* C7 as stated: when a callback is supplied, in every successful run of
\* splitPDFWithProgress, splitAndUploadPDF or splitBufferAndUpload the number
\* of callback invocations equals the number of units completed, including
\* the run that uploads the whole document as a single unit, and the last
\* invocation has current = total.
C7_OncePerUnit ==
    (Succeeded /\ CallsProgress(fn, onProgress)) =>
        /\ Len(progressLog) = Len(ReturnedFiles)
        /\ fn \in UploadFns => Len(progressLog) = result.totalFiles
        /\ progressLog # <<>> =>
              progressLog[Len(progressLog)].current = progressLog[Len(progressLog)].total

\* C12: for a source document with T = 0 pages and any P >= 1 every split
\* function treats the run as a zero-unit run that is not an error: it
\* returns success, materialises no unit, writes no file and makes no store
\* call.
C12_ZeroPages ==
    (Done /\ totalPages = 0 /\ ~LoadFailed) =>
        /\ result.success
        /\ files = <<>>
        /\ ReturnedFiles = <<>>
        /\ disk = {}
        /\ storeLog = <<>>

====
